---------------------------- MODULE Spec2Model ----------------------------
(***************************************************************************)
(* Exact-input quoting of the Meteora constant-product pool edge           *)
(* (lib/dex-meteora-cpmm): MeteoraCpEdge::quote_exact_in and the           *)
(* MeteoraCpDex::load / MeteoraCpDex::quote entry points around it.        *)
(*                                                                         *)
(* Token amounts are u64 and intermediate products u128 in the source.     *)
(* They keep that width here: a number is a little-endian sequence of      *)
(* base-10^4 limbs without leading zero limbs (zero is the empty           *)
(* sequence), and every checked_* operation of the source is an operator   *)
(* returning an option: None, or Some(v).                                  *)
(***************************************************************************)
EXTENDS Integers, Sequences, FiniteSets, TLC

(***************************************************************************)
(* Unbounded naturals as limb sequences.                                   *)
(***************************************************************************)
Base == 10 ^ 4

RECURSIVE Norm(_)
Norm(s) ==
    IF s = <<>> THEN <<>>
    ELSE IF s[Len(s)] = 0 THEN Norm(SubSeq(s, 1, Len(s) - 1))
    ELSE s

RECURSIVE Big(_)
Big(n) == IF n = 0 THEN <<>> ELSE <<n % Base>> \o Big(n \div Base)

RECURSIVE AddC(_, _, _)
AddC(a, b, c) ==
    IF a = <<>> /\ b = <<>> THEN (IF c = 0 THEN <<>> ELSE <<c>>)
    ELSE LET x == IF a = <<>> THEN 0 ELSE Head(a)
             y == IF b = <<>> THEN 0 ELSE Head(b)
             s == x + y + c
         IN  <<s % Base>> \o AddC(IF a = <<>> THEN <<>> ELSE Tail(a),
                                  IF b = <<>> THEN <<>> ELSE Tail(b),
                                  s \div Base)

BAdd(a, b) == AddC(a, b, 0)

RECURSIVE CmpAt(_, _, _)
CmpAt(a, b, i) ==
    IF i = 0 THEN 0
    ELSE IF a[i] < b[i] THEN -1
    ELSE IF a[i] > b[i] THEN 1
    ELSE CmpAt(a, b, i - 1)

BCmp(a, b) ==
    IF Len(a) < Len(b) THEN -1
    ELSE IF Len(a) > Len(b) THEN 1
    ELSE CmpAt(a, b, Len(a))

BLe(a, b) == BCmp(a, b) <= 0
BLt(a, b) == BCmp(a, b) < 0

\* a - b for a >= b
RECURSIVE SubB(_, _, _)
SubB(a, b, w) ==
    IF a = <<>> THEN <<>>
    ELSE LET y == IF b = <<>> THEN 0 ELSE Head(b)
             d == Head(a) - y - w
         IN  <<IF d < 0 THEN d + Base ELSE d>>
                 \o SubB(Tail(a), IF b = <<>> THEN <<>> ELSE Tail(b),
                         IF d < 0 THEN 1 ELSE 0)

BSub(a, b) == Norm(SubB(a, b, 0))

RECURSIVE MulC(_, _, _)
MulC(a, d, c) ==
    IF a = <<>> THEN (IF c = 0 THEN <<>> ELSE <<c>>)
    ELSE LET p == Head(a) * d + c
         IN  <<p % Base>> \o MulC(Tail(a), d, p \div Base)

MulSmall(a, d) == IF d = 0 THEN <<>> ELSE MulC(a, d, 0)

ShiftUp(a) == IF a = <<>> THEN <<>> ELSE <<0>> \o a

RECURSIVE BMul(_, _)
BMul(a, b) ==
    IF a = <<>> \/ b = <<>> THEN <<>>
    ELSE BAdd(MulSmall(a, Head(b)), ShiftUp(BMul(a, Tail(b))))

\* the largest digit d in lo..hi with d * b <= r
RECURSIVE DigitSearch(_, _, _, _)
DigitSearch(r, b, lo, hi) ==
    IF lo = hi THEN lo
    ELSE LET mid == (lo + hi + 1) \div 2
         IN  IF BLe(MulSmall(b, mid), r)
             THEN DigitSearch(r, b, mid, hi)
             ELSE DigitSearch(r, b, lo, mid - 1)

\* long division of the limbs i..Len(a) of a by b # 0: <<quotient limbs, remainder>>
RECURSIVE DivFrom(_, _, _)
DivFrom(a, b, i) ==
    IF i > Len(a) THEN << <<>>, <<>> >>
    ELSE LET hi == DivFrom(a, b, i + 1)
             r1 == Norm(<<a[i]>> \o hi[2])
             d  == IF BLt(r1, b) THEN 0 ELSE DigitSearch(r1, b, 1, Base - 1)
         IN  << <<d>> \o hi[1], BSub(r1, MulSmall(b, d)) >>

BDiv(a, b) == Norm(DivFrom(a, b, 1)[1])
BRem(a, b) == DivFrom(a, b, 1)[2]


(***************************************************************************)
(* Options and the fixed-width checked arithmetic of the source.           *)
(***************************************************************************)
None == <<>>
Some(v) == <<v>>
V(o) == o[1]

Zero == <<>>
One == <<1>>

\* 2^64 - 1 = 1844 6744 0737 0955 1615
U64Max == <<1615, 955, 737, 6744, 1844>>
\* 2^128 - 1 = 340 2823 6692 0938 4634 6337 4607 4317 6821 1455
U128Max == <<1455, 6821, 4317, 4607, 6337, 4634, 938, 6692, 2823, 340>>

\* u128 -> u64 (try_into().ok(), u64::try_from(..).ok())
try_into_u64(v) == IF BLe(v, U64Max) THEN Some(v) ELSE None

checked_add_u64(a, b) == try_into_u64(BAdd(a, b))

\* a value of unbounded width as u128, None when it does not fit
try_into_u128(v) == IF BLe(v, U128Max) THEN Some(v) ELSE None

checked_add_u128(a, b) == try_into_u128(BAdd(a, b))

checked_sub(a, b) == IF BLe(b, a) THEN Some(BSub(a, b)) ELSE None

checked_mul_u128(a, b) == try_into_u128(BMul(a, b))

checked_div(a, b) == IF b = Zero THEN None ELSE Some(BDiv(a, b))

(***************************************************************************)
(* The vault share valuator (meteora_vault_cpi::Vault) and the pool's fee  *)
(* schedule (meteora_cpmm_cpi::PoolFees): called by the quoter, defined    *)
(* outside the files of this crate.                                        *)
(***************************************************************************)
LOCKED_PROFIT_DEGRADATION_DENOMINATOR == <<0, 0, 0, 1>>

\* `opt.and_then(f)`, the `?` of a chain of checked operations
AndThen(opt, F(_)) == IF opt = None THEN None ELSE F(V(opt))

\* the part of last_updated_locked_profit left after a part `ratio` of the
\* denominator has unlocked
locked_share(last_updated_locked_profit, ratio) ==
    IF BLt(LOCKED_PROFIT_DEGRADATION_DENOMINATOR, ratio) THEN Some(Zero)
    ELSE AndThen(checked_mul_u128(last_updated_locked_profit,
                                  BSub(LOCKED_PROFIT_DEGRADATION_DENOMINATOR, ratio)),
                 LAMBDA prod :
                     try_into_u64(BDiv(prod, LOCKED_PROFIT_DEGRADATION_DENOMINATOR)))

\* the part of the vault's total still locked at current_time: linear unlock
calculate_locked_profit(tracker, current_time) ==
    AndThen(checked_sub(current_time, tracker.last_report),
            LAMBDA duration :
                AndThen(checked_mul_u128(duration, tracker.locked_profit_degradation),
                        LAMBDA ratio :
                            locked_share(tracker.last_updated_locked_profit, ratio)))

get_unlocked_amount(vault, current_time) ==
    AndThen(calculate_locked_profit(vault.locked_profit_tracker, current_time),
            LAMBDA locked : checked_sub(vault.total_amount, locked))

\* floor(a * b / c) in u128, narrowed to u64
mul_div_u64(a, b, c) ==
    AndThen(checked_mul_u128(a, b),
            LAMBDA prod : AndThen(checked_div(prod, c), try_into_u64))

\* amount_for_shares: floor(share * unlocked / total_supply)
get_amount_by_share(vault, current_time, share, total_supply) ==
    AndThen(get_unlocked_amount(vault, current_time),
            LAMBDA total : mul_div_u64(share, total, total_supply))

\* shares_for_amount: floor(out_token * total_supply / unlocked)
get_unmint_amount(vault, current_time, out_token, total_supply) ==
    AndThen(get_unlocked_amount(vault, current_time),
            LAMBDA total : mul_div_u64(out_token, total_supply, total))

\* prod / fee_denominator, rounded as the schedule says
fee_of(prod, fee_denominator, rounding) ==
    IF fee_denominator = Zero THEN None
    ELSE IF rounding = "floor" THEN checked_div(prod, fee_denominator)
    ELSE AndThen(checked_add_u128(prod, BSub(fee_denominator, One)),
                 LAMBDA up : checked_div(up, fee_denominator))

\* a rational fraction of the nominal input; the schedule fixes the rounding
calculate_fee(token_amount, fee_numerator, fee_denominator, rounding) ==
    IF fee_numerator = Zero \/ token_amount = Zero THEN Some(Zero)
    ELSE AndThen(checked_mul_u128(token_amount, fee_numerator),
                 LAMBDA prod : fee_of(prod, fee_denominator, rounding))

trading_fee(fees, trading_tokens) ==
    calculate_fee(trading_tokens, fees.trade_fee_numerator,
                  fees.trade_fee_denominator, fees.rounding)

owner_trading_fee(fees, trading_tokens) ==
    calculate_fee(trading_tokens, fees.owner_trade_fee_numerator,
                  fees.owner_trade_fee_denominator, fees.rounding)

(***************************************************************************)
(* raydium_cp_swap::utils::CheckedCeilDiv for u128: <<quotient, divisor>>, *)
(* the quotient rounded up.                                                *)
(***************************************************************************)
ceil_of(qr, rhs) ==
    IF qr[2] = Zero THEN Some(<<Norm(qr[1]), rhs>>)
    ELSE AndThen(checked_add_u128(Norm(qr[1]), One), LAMBDA q1 : Some(<<q1, rhs>>))

checked_ceil_div(a, rhs) ==
    IF rhs = Zero THEN None ELSE ceil_of(DivFrom(a, rhs, 1), rhs)

(***************************************************************************)
(* MeteoraCpEdge::quote_exact_in, one operator per statement.  A run is a  *)
(* record of the call's arguments and locals; a local is None until its    *)
(* statement has run.  pc counts the statements done; failed_at names the  *)
(* statement whose `?` (or early return) ended the call with None, and     *)
(* panicked is set when an unwrap() met an error.                          *)
(***************************************************************************)
Locals ==
    { "token_a_amount", "token_b_amount", "in_vault", "in_token_total_amount",
      "out_token_total_amount", "in_mint", "trade_fee", "owner_fee",
      "in_amount_after_owner_fee", "in_lp", "after_in_token_total_amount",
      "actual_in_amount", "actual_in_amount_after_fee", "invariant",
      "new_swap_source_amount", "new_swap_destination_amount",
      "destination_amount_swapped", "out_vault_lp", "out_amount", "quote" }

Start(current_time, amount_in, is_a_to_b) ==
    [ l \in Locals |-> None ] @@
    [ current_time |-> current_time, amount_in |-> amount_in,
      is_a_to_b |-> is_a_to_b, pc |-> 0, failed_at |-> "", panicked |-> FALSE ]

\* `let f = opt?;`
Bind(run, f, opt) ==
    IF opt = None THEN [run EXCEPT !.failed_at = f]
    ELSE [run EXCEPT ![f] = opt, !.pc = @ + 1]

\* the references chosen with the direction (the tuple of lines 86-123)
in_vault_lp(e, run) ==
    IF run.is_a_to_b THEN e.a_vault_lp_token ELSE e.b_vault_lp_token
in_vault_lp_mint(e, run) ==
    IF run.is_a_to_b THEN e.a_vault_lp_mint ELSE e.b_vault_lp_mint
out_vault(e, run) ==
    IF run.is_a_to_b THEN e.b_vault ELSE e.a_vault
out_vault_lp_mint(e, run) ==
    IF run.is_a_to_b THEN e.b_vault_lp_mint ELSE e.a_vault_lp_mint
out_vault_token_account(e, run) ==
    IF run.is_a_to_b THEN e.b_vault_token ELSE e.a_vault_token

let_token_a_amount(e, run) ==
    Bind(run, "token_a_amount",
         get_amount_by_share(e.a_vault, run.current_time,
                             e.a_vault_lp_token.amount, e.a_vault_lp_mint.supply))

let_token_b_amount(e, run) ==
    Bind(run, "token_b_amount",
         get_amount_by_share(e.b_vault, run.current_time,
                             e.b_vault_lp_token.amount, e.b_vault_lp_mint.supply))

\* the input vault is cloned; the other sides stay references into the edge
let_sides(e, run) ==
    IF run.is_a_to_b
    THEN [run EXCEPT !.in_vault = Some(e.a_vault),
                     !.in_token_total_amount = run.token_a_amount,
                     !.out_token_total_amount = run.token_b_amount,
                     !.in_mint = Some(e.pool.token_a_mint),
                     !.pc = @ + 1]
    ELSE [run EXCEPT !.in_vault = Some(e.b_vault),
                     !.in_token_total_amount = run.token_b_amount,
                     !.out_token_total_amount = run.token_a_amount,
                     !.in_mint = Some(e.pool.token_b_mint),
                     !.pc = @ + 1]

let_trade_fee(e, run) ==
    Bind(run, "trade_fee", trading_fee(e.pool.fees, run.amount_in))

let_owner_fee(e, run) ==
    Bind(run, "owner_fee", owner_trading_fee(e.pool.fees, run.amount_in))

let_in_amount_after_owner_fee(e, run) ==
    Bind(run, "in_amount_after_owner_fee",
         AndThen(try_into_u64(V(run.owner_fee)),
                 LAMBDA fee : checked_sub(run.amount_in, fee)))

let_in_lp(e, run) ==
    Bind(run, "in_lp",
         get_unmint_amount(V(run.in_vault), run.current_time,
                           V(run.in_amount_after_owner_fee),
                           in_vault_lp_mint(e, run).supply))

\* the deposit with wrapping_add in place of checked_add
set_in_vault_total_amount_wrapping(e, run) ==
    Bind(run, "in_vault",
         Some([V(run.in_vault) EXCEPT
                 !.total_amount = BRem(BAdd(@, V(run.in_amount_after_owner_fee)),
                                       BAdd(U64Max, One))]))

\* the simulated deposit, on the clone
set_in_vault_total_amount(e, run) ==
    Bind(run, "in_vault",
         AndThen(checked_add_u64(V(run.in_vault).total_amount,
                                 V(run.in_amount_after_owner_fee)),
                 LAMBDA total : Some([V(run.in_vault) EXCEPT !.total_amount = total])))

\* the minted shares valued against the supply before the mint
let_after_in_token_total_amount_old_supply(e, run) ==
    Bind(run, "after_in_token_total_amount",
         AndThen(checked_add_u64(V(run.in_lp), in_vault_lp(e, run).amount),
                 LAMBDA share :
                     get_amount_by_share(V(run.in_vault), run.current_time,
                                         share, in_vault_lp_mint(e, run).supply)))

let_after_in_token_total_amount(e, run) ==
    Bind(run, "after_in_token_total_amount",
         AndThen(checked_add_u64(V(run.in_lp), in_vault_lp(e, run).amount),
                 LAMBDA share :
                     AndThen(checked_add_u64(in_vault_lp_mint(e, run).supply, V(run.in_lp)),
                             LAMBDA supply :
                                 get_amount_by_share(V(run.in_vault), run.current_time,
                                                     share, supply))))

\* before_in_token_total_amount is in_token_total_amount (line 130)
let_actual_in_amount(e, run) ==
    Bind(run, "actual_in_amount",
         checked_sub(V(run.after_in_token_total_amount),
                     V(run.in_token_total_amount)))

let_actual_in_amount_after_fee(e, run) ==
    Bind(run, "actual_in_amount_after_fee",
         AndThen(try_into_u64(V(run.trade_fee)),
                 LAMBDA fee : checked_sub(V(run.actual_in_amount), fee)))

let_invariant(e, run) ==
    Bind(run, "invariant",
         checked_mul_u128(V(run.in_token_total_amount),
                          V(run.out_token_total_amount)))

let_new_swap_source_amount(e, run) ==
    Bind(run, "new_swap_source_amount",
         checked_add_u128(V(run.in_token_total_amount),
                          V(run.actual_in_amount_after_fee)))

\* checked_div in place of checked_ceil_div
let_new_swap_destination_amount_floored(e, run) ==
    Bind(run, "new_swap_destination_amount",
         checked_div(V(run.invariant), V(run.new_swap_source_amount)))

\* let (new_swap_destination_amount, _) = ..
let_new_swap_destination_amount(e, run) ==
    Bind(run, "new_swap_destination_amount",
         AndThen(checked_ceil_div(V(run.invariant), V(run.new_swap_source_amount)),
                 LAMBDA pair : Some(pair[1])))

\* the subtraction without the filter
let_destination_amount_swapped_unfiltered(e, run) ==
    Bind(run, "destination_amount_swapped",
         checked_sub(V(run.out_token_total_amount),
                     V(run.new_swap_destination_amount)))

\* the subtraction from the invariant in place of swap_destination_amount
let_destination_amount_swapped_of_invariant(e, run) ==
    Bind(run, "destination_amount_swapped",
         AndThen(checked_sub(V(run.invariant), V(run.new_swap_destination_amount)),
                 LAMBDA out : IF out # Zero THEN Some(out) ELSE None))

\* checked_sub(..).filter(|out| out != &0)?
let_destination_amount_swapped(e, run) ==
    Bind(run, "destination_amount_swapped",
         AndThen(checked_sub(V(run.out_token_total_amount),
                             V(run.new_swap_destination_amount)),
                 LAMBDA out : IF out # Zero THEN Some(out) ELSE None))

\* destination_amount_swapped.try_into().unwrap()
let_out_vault_lp(e, run) ==
    IF try_into_u64(V(run.destination_amount_swapped)) = None
    THEN [run EXCEPT !.panicked = TRUE, !.failed_at = "out_vault_lp"]
    ELSE Bind(run, "out_vault_lp",
              get_unmint_amount(out_vault(e, run), run.current_time,
                                V(run.destination_amount_swapped),
                                out_vault_lp_mint(e, run).supply))

let_out_amount(e, run) ==
    Bind(run, "out_amount",
         get_amount_by_share(out_vault(e, run), run.current_time,
                             V(run.out_vault_lp), out_vault_lp_mint(e, run).supply))

\* no comparison with the output vault's token account
check_reserves_skipped(e, run) == [run EXCEPT !.pc = @ + 1]

\* TX would revert due to insufficient vault reserves.
check_reserves(e, run) ==
    IF BLt(out_vault_token_account(e, run).amount, V(run.out_amount))
    THEN [run EXCEPT !.failed_at = "reserves"]
    ELSE [run EXCEPT !.pc = @ + 1]

\* fee_amount: trade_fee.try_into().unwrap()
some_quote(e, run) ==
    IF try_into_u64(V(run.trade_fee)) = None
    THEN [run EXCEPT !.panicked = TRUE, !.failed_at = "quote"]
    ELSE Bind(run, "quote",
              Some([ in_amount |-> run.amount_in,
                     out_amount |-> V(run.out_amount),
                     fee_amount |-> V(run.trade_fee),
                     fee_mint |-> V(run.in_mint) ]))

\* the call has returned: None at a `?` or early return, a panic, or Some(Quote)
Returned(run) == run.failed_at # "" \/ run.quote # None

\* the statement at run.pc
Statement(e, run) ==
    CASE run.pc = 0 -> let_token_a_amount(e, run)
      [] run.pc = 1 -> let_token_b_amount(e, run)
      [] run.pc = 2 -> let_sides(e, run)
      [] run.pc = 3 -> let_trade_fee(e, run)
      [] run.pc = 4 -> let_owner_fee(e, run)
      [] run.pc = 5 -> let_in_amount_after_owner_fee(e, run)
      [] run.pc = 6 -> let_in_lp(e, run)
      [] run.pc = 7 -> set_in_vault_total_amount(e, run)
      [] run.pc = 8 -> let_after_in_token_total_amount(e, run)
      [] run.pc = 9 -> let_actual_in_amount(e, run)
      [] run.pc = 10 -> let_actual_in_amount_after_fee(e, run)
      [] run.pc = 11 -> let_invariant(e, run)
      [] run.pc = 12 -> let_new_swap_source_amount(e, run)
      [] run.pc = 13 -> let_new_swap_destination_amount(e, run)
      [] run.pc = 14 -> let_destination_amount_swapped(e, run)
      [] run.pc = 15 -> let_out_vault_lp(e, run)
      [] run.pc = 16 -> let_out_amount(e, run)
      [] run.pc = 17 -> check_reserves(e, run)
      [] run.pc = 18 -> some_quote(e, run)

\* in_vault a `&mut` into the edge in place of a clone
SelfAfter_aliased(e, run) ==
    IF run.in_vault = None THEN e
    ELSE IF run.is_a_to_b THEN [e EXCEPT !.a_vault = V(run.in_vault)]
    ELSE [e EXCEPT !.b_vault = V(run.in_vault)]

\* what the caller's edge is after a statement of a call: the call holds
\* &self, and its only assignment is to the clone it owns
SelfAfter(e, run) == e

RECURSIVE RunFrom(_, _), Continue(_, _)
RunFrom(e, run) ==
    IF Returned(run) THEN run ELSE Continue(e, Statement(e, run))

Continue(e, next) == RunFrom(SelfAfter(e, next), next)

quote_exact_in(e, current_time, amount_in, is_a_to_b) ==
    RunFrom(e, Start(current_time, amount_in, is_a_to_b))

(***************************************************************************)
(* MeteoraCpDex::load and MeteoraCpDex::quote.  chain_data is the account  *)
(* provider's view: the accounts of one pool, and the Clock sysvar account *)
(* (None when the view does not hold it).                                  *)
(***************************************************************************)
Ok(v) == [tag |-> "Ok", value |-> v]
Err(msg) == [tag |-> "Err", value |-> msg]

\* every account of the pool is in the view: the edge is a copy of them
load(chain_data) == Ok(chain_data.accounts)

zero_quote(e) ==
    [ in_amount |-> Zero, out_amount |-> Zero, fee_amount |-> Zero,
      fee_mint |-> e.pool.token_a_mint ]

\* `if let Some(quote) = edge.quote_exact_in(..)`; an unwrap() that failed
\* inside unwinds through quote
returned(e, run) ==
    IF run.panicked
    THEN [result |-> Err("panic"), clock_read |-> TRUE, run |-> Some(run)]
    ELSE IF run.quote # None
    THEN [result |-> Ok(V(run.quote)), clock_read |-> TRUE, run |-> Some(run)]
    ELSE [result |-> Ok(zero_quote(e)), clock_read |-> TRUE, run |-> Some(run)]

\* the clock read moved in front of the enabled and curve-type checks
quote_clock_first(id_is_a_to_b, e, chain_data, in_amount) ==
    IF chain_data.clock = None
    THEN [result |-> Err("read clock"), clock_read |-> TRUE, run |-> None]
    ELSE IF ~e.pool.enabled \/ e.pool.curve_type # "ConstantProduct"
    THEN [result |-> Ok(zero_quote(e)), clock_read |-> TRUE, run |-> None]
    ELSE returned(e, quote_exact_in(e, V(chain_data.clock), in_amount, id_is_a_to_b))

\* the result, with what the call did on its way: whether it read the clock,
\* and the run of quote_exact_in (None when it made none)
quote(id_is_a_to_b, e, chain_data, in_amount) ==
    IF ~e.pool.enabled
    THEN [result |-> Ok(zero_quote(e)), clock_read |-> FALSE, run |-> None]
    ELSE IF e.pool.curve_type # "ConstantProduct"
    THEN [result |-> Ok(zero_quote(e)), clock_read |-> FALSE, run |-> None]
    ELSE IF chain_data.clock = None
    THEN [result |-> Err("read clock"), clock_read |-> TRUE, run |-> None]
    ELSE returned(e, quote_exact_in(e, V(chain_data.clock), in_amount, id_is_a_to_b))

(***************************************************************************)
(* The snapshots and inputs explored.                                      *)
(***************************************************************************)
MaxAmt == 2
MaxIn == 2
MaxTime == 1

NoProfit ==
    [ last_updated_locked_profit |-> Zero, last_report |-> Zero,
      locked_profit_degradation |-> Zero ]

\* half of the locked profit unlocks per second after last_report
Unlocking(profit, last_report) ==
    [ last_updated_locked_profit |-> Big(profit), last_report |-> Big(last_report),
      locked_profit_degradation |-> BDiv(LOCKED_PROFIT_DEGRADATION_DENOMINATOR, Big(2)) ]

\* one side of a pool: the vault, its token account, the pool's holding of
\* the vault's LP shares and the LP mint
Side(total, supply, lp, token, tracker) ==
    [ vault |-> [total_amount |-> total, locked_profit_tracker |-> tracker],
      token |-> [amount |-> token],
      lp_token |-> [amount |-> lp],
      lp_mint |-> [supply |-> supply] ]


AllSmallSides ==
    { sd \in { Side(Big(t), Big(s), Big(l), Big(t), NoProfit) :
                 t \in 0..MaxAmt, s \in 0..MaxAmt, l \in 0..MaxAmt } :
        BLe(sd.lp_token.amount, sd.lp_mint.supply) }

\* the token account holds less than the vault's total
ShortSides ==
    { Side(Big(t), Big(t), Big(t), Big(k), NoProfit) :
        t \in 1..MaxAmt, k \in 0..MaxAmt - 1 }

\* a vault with profit still locked, reported at second r
YieldSides ==
    { Side(Big(MaxAmt + 2), Big(MaxAmt), Big(MaxAmt), Big(MaxAmt + 2), Unlocking(2, r)) :
        r \in 0..MaxTime }

\* the reserves of the ceiling-division fixture
FixtureSides ==
    { Side(Big(n), Big(n), Big(n), Big(n), NoProfit) : n \in {1000000, 2000000} }

HugeSides == { Side(U64Max, U64Max, U64Max, U64Max, NoProfit) }

\* two plain small sides, and every side that is not a plain small one
SpecialSides ==
    { Side(Big(MaxAmt), Big(s), Big(s), Big(MaxAmt), NoProfit) : s \in {1, MaxAmt} }
        \cup { sd \in ShortSides : BLt(sd.token.amount, sd.vault.total_amount) }
        \cup YieldSides \cup FixtureSides \cup HugeSides

Fees(tn, td, on, od, rounding) ==
    [ trade_fee_numerator |-> Big(tn), trade_fee_denominator |-> Big(td),
      owner_trade_fee_numerator |-> Big(on), owner_trade_fee_denominator |-> Big(od),
      rounding |-> rounding ]

FeeSchedules ==
    { Fees(0, 1, 0, 1, "floor"), Fees(1, 4, 0, 1, "floor"), Fees(1, 4, 1, 2, "ceil"),
      Fees(25, 10000, 5, 10000, "floor"), Fees(1, 0, 0, 1, "floor"),
      Fees(2, 1, 1, 1, "floor") }

Pool(enabled, curve_type, fees) ==
    [ enabled |-> enabled, curve_type |-> curve_type, fees |-> fees,
      token_a_mint |-> "mintA", token_b_mint |-> "mintB" ]

Pools ==
    { Pool(TRUE, "ConstantProduct", f) : f \in FeeSchedules }
        \cup { Pool(FALSE, "ConstantProduct", Fees(25, 10000, 5, 10000, "floor")),
               Pool(TRUE, "Stable", Fees(25, 10000, 5, 10000, "floor")) }

SmallPools ==
    { Pool(TRUE, "ConstantProduct", f) :
        f \in { Fees(0, 1, 0, 1, "floor"), Fees(1, 4, 1, 2, "ceil") } }

Edge(pool, a, b) ==
    [ pool |-> pool,
      a_vault |-> a.vault, b_vault |-> b.vault,
      a_vault_token |-> a.token, b_vault_token |-> b.token,
      a_vault_lp_token |-> a.lp_token, b_vault_lp_token |-> b.lp_token,
      a_vault_lp_mint |-> a.lp_mint, b_vault_lp_mint |-> b.lp_mint ]

\* every pair of small sides under two fee schedules
SmallEdges == { Edge(p, a, b) : p \in SmallPools, a \in AllSmallSides, b \in AllSmallSides }

\* every pair of special sides under every pool configuration
SpecialEdges == { Edge(p, a, b) : p \in Pools, a \in SpecialSides, b \in SpecialSides }

Clocks == {None} \cup { Some(Big(t)) : t \in 0..MaxTime }

Amounts == { Big(n) : n \in 0..MaxIn } \cup { Big(10000), U64Max }

\* the snapshots the sampling threads share
SampledEdges ==
    { Edge(Pool(TRUE, "ConstantProduct", Fees(0, 1, 0, 1, "floor")), a, b) :
        a \in { Side(Big(MaxAmt), Big(s), Big(s), Big(MaxAmt), NoProfit) : s \in {1, MaxAmt} },
        b \in { Side(Big(MaxAmt), Big(s), Big(s), Big(MaxAmt), NoProfit) : s \in {1, MaxAmt} } }

SampledAmounts == { Big(n) : n \in 1..MaxIn }

Threads == {1, 2}

(***************************************************************************)
(* The state: the provider's view, the edge loaded from it (None before    *)
(* load), the last call of quote with its arguments, and per sampling      *)
(* thread the run of the quote_exact_in call it is in (None when in none). *)
(***************************************************************************)
VARIABLES chain_data, edge, last, sampling

vars == <<chain_data, edge, last, sampling>>

NoCall == [called |-> FALSE]

Init ==
    /\ chain_data \in
         { [accounts |-> e, clock |-> Some(Zero)] : e \in SmallEdges }
             \cup { [accounts |-> e, clock |-> c] : e \in SpecialEdges, c \in Clocks }
    /\ edge = None
    /\ last = NoCall
    /\ sampling = [th \in Threads |-> None]

\* load: a fresh edge for a quoting pass
Load ==
    /\ \A th \in Threads : sampling[th] = None
    /\ edge' = Some(load(chain_data).value)
    /\ last' = NoCall
    /\ UNCHANGED <<chain_data, sampling>>

Called(is_a_to_b, in_amount, out) ==
    /\ last' = [ called |-> TRUE, is_a_to_b |-> is_a_to_b,
                 in_amount |-> in_amount, out |-> out ]
    /\ edge' = IF out.run = None THEN edge
               ELSE Some(SelfAfter(V(edge), V(out.run)))

\* quote, once per loaded edge (calls that share one edge: the sampling threads)
Quote ==
    /\ edge # None
    /\ ~last.called
    /\ \E is_a_to_b \in BOOLEAN, in_amount \in Amounts :
         Called(is_a_to_b, in_amount, quote(is_a_to_b, V(edge), chain_data, in_amount))
    /\ UNCHANGED <<chain_data, sampling>>

Next == Load \/ Quote

Spec == Init /\ [][Next]_vars

(***************************************************************************)
(* Multi-amount sampling: threads call quote_exact_in on one shared edge,  *)
(* each call a statement at a time.                                        *)
(***************************************************************************)
InitSampling ==
    /\ chain_data \in { [accounts |-> e, clock |-> Some(Zero)] : e \in SampledEdges }
    /\ edge = None
    /\ last = NoCall
    /\ sampling = [th \in Threads |-> None]

Begin(th) ==
    /\ edge # None
    /\ sampling[th] = None
    /\ \E is_a_to_b \in BOOLEAN, amount_in \in SampledAmounts :
         sampling' = [sampling EXCEPT
                        ![th] = Some(Start(V(chain_data.clock), amount_in, is_a_to_b))]
    /\ UNCHANGED <<chain_data, edge, last>>

Stepped(th, next) ==
    /\ sampling' = [sampling EXCEPT ![th] = Some(next)]
    /\ edge' = Some(SelfAfter(V(edge), next))

Step(th) ==
    /\ sampling[th] # None
    /\ ~Returned(V(sampling[th]))
    /\ Stepped(th, Statement(V(edge), V(sampling[th])))
    /\ UNCHANGED <<chain_data, last>>

\* the call has returned and its result is dropped
End(th) ==
    /\ sampling[th] # None
    /\ Returned(V(sampling[th]))
    /\ sampling' = [sampling EXCEPT ![th] = None]
    /\ UNCHANGED <<chain_data, edge, last>>

NextSampling ==
    \/ Load
    \/ \E th \in Threads : Begin(th)
    \/ \E th \in Threads : Step(th)
    \/ \E th \in Threads : End(th)

SpecSampling == InitSampling /\ [][NextSampling]_vars

(***************************************************************************)
(* Properties.  Ran: the last call of quote ran quote_exact_in, and Run is *)
(* that run with every local it bound.                                     *)
(***************************************************************************)
Ran == last.called /\ last.out.run # None
Run == V(last.out.run)
Succeeded == Ran /\ Run.quote # None

\* the accounts of the input and of the output side of the last call
InVaultBefore == IF last.is_a_to_b THEN V(edge).a_vault ELSE V(edge).b_vault
InSupplyBefore ==
    IF last.is_a_to_b THEN V(edge).a_vault_lp_mint.supply
    ELSE V(edge).b_vault_lp_mint.supply
OutTokenAccount ==
    IF last.is_a_to_b THEN V(edge).b_vault_token ELSE V(edge).a_vault_token

\* q is n / d rounded up
IsCeiling(q, n, d) ==
    /\ BLe(n, BMul(q, d))
    /\ q # Zero => BLt(BMul(BSub(q, One), d), n)

\* C1: once the source reserve, the destination reserve and the credited
\* input are known, the new destination reserve is the product of the two
\* reserves divided by (source + credited input) rounded up, and the amount
\* swapped is the destination reserve minus it; the call returns None when
\* that subtraction underflows or gives zero (or the divisor is zero).
C1_CeilingSolve ==
    (Ran /\ Run.new_swap_source_amount # None) =>
        LET src == V(Run.in_token_total_amount)
            dst == V(Run.out_token_total_amount)
            new_src == BAdd(src, V(Run.actual_in_amount_after_fee))
        IN  /\ Run.invariant = Some(BMul(src, dst))
            /\ Run.new_swap_source_amount = Some(new_src)
            /\ IF new_src = Zero
               THEN Run.failed_at = "new_swap_destination_amount" /\ Run.quote = None
               ELSE /\ Run.new_swap_destination_amount # None
                    /\ IsCeiling(V(Run.new_swap_destination_amount), BMul(src, dst), new_src)
                    /\ IF BLt(V(Run.new_swap_destination_amount), dst)
                       THEN Run.destination_amount_swapped =
                                Some(BSub(dst, V(Run.new_swap_destination_amount)))
                       ELSE /\ Run.failed_at = "destination_amount_swapped"
                            /\ Run.quote = None

\* the quotient is not whole, and the amount swapped is positive
C1_Witness ==
    /\ Ran
    /\ Run.destination_amount_swapped # None
    /\ BRem(V(Run.invariant), V(Run.new_swap_source_amount)) # Zero

\* C2: a call whose final out_amount exceeds the amount of the output
\* vault's token account returns None, so every quote returned has
\* out_amount within that amount.
C2_ReserveBound ==
    /\ (Ran /\ Run.out_amount # None /\ BLt(OutTokenAccount.amount, V(Run.out_amount)))
          => (Run.quote = None /\ last.out.result = Ok(zero_quote(V(edge))))
    /\ Succeeded => BLe(V(Run.quote).out_amount, OutTokenAccount.amount)

C2_Witness ==
    /\ Ran
    /\ Run.out_amount # None
    /\ BLt(OutTokenAccount.amount, V(Run.out_amount))
    /\ Run.failed_at = "reserves"

\* C3: quote never reports a failure of quote_exact_in (None) with the
\* result it gives for a disabled or non-constant-product pool.
C3_FailureNotReportedAsInapplicable ==
    (Ran /\ Run.quote = None /\ ~Run.panicked) =>
        last.out.result # Ok(zero_quote(V(edge)))

\* C4: for a disabled pool, or one whose curve is not constant product,
\* quote returns Ok of the zero quote with fee_mint token_a_mint, whatever
\* the amount and direction, without reading the clock and without a run of
\* quote_exact_in.
C4_InapplicableVenue ==
    (last.called /\ (~V(edge).pool.enabled \/ V(edge).pool.curve_type # "ConstantProduct")) =>
        /\ last.out.result =
             Ok([ in_amount |-> Zero, out_amount |-> Zero, fee_amount |-> Zero,
                  fee_mint |-> "mintA" ])
        /\ ~last.out.clock_read
        /\ last.out.run = None

\* such a quote, of the largest amount, from a view without the clock account
C4_Witness ==
    /\ last.called
    /\ ~V(edge).pool.enabled
    /\ chain_data.clock = None
    /\ last.in_amount = U64Max
    /\ last.out.result.tag = "Ok"

\* the call with source reserve 1_000_000, destination reserve 2_000_000 and
\* credited input 10_000
Fixture ==
    /\ Ran
    /\ Run.in_token_total_amount = Some(Big(1000000))
    /\ Run.out_token_total_amount = Some(Big(2000000))
    /\ Run.actual_in_amount_after_fee = Some(Big(10000))

\* C5: on the fixture the invariant is 2 * 10^12, the new source reserve
\* 1_010_000, the new destination reserve 1_980_199 and the amount swapped
\* 19_801.
C5_FixtureValues ==
    Fixture =>
        /\ Run.invariant = Some(<<0, 0, 0, 2>>)
        /\ Run.new_swap_source_amount = Some(Big(1010000))
        /\ Run.new_swap_destination_amount = Some(Big(1980199))
        /\ Run.destination_amount_swapped = Some(Big(19801))

C5_Witness == Fixture /\ Run.destination_amount_swapped # None /\ Succeeded

\* C5 as stated: the new destination reserve is 1_980_198 and the amount
\* swapped 19_802.
C5_AsStated ==
    Fixture =>
        /\ Run.invariant = Some(<<0, 0, 0, 2>>)
        /\ Run.new_swap_source_amount = Some(Big(1010000))
        /\ Run.new_swap_destination_amount = Some(Big(1980198))
        /\ Run.destination_amount_swapped = Some(Big(19802))

\* C6: with amount_in = 2^64 - 1 and an owner fee below the input vault's
\* total_amount, the call returns None, and if it gets as far as the
\* simulated deposit it ends there, at the checked addition; a quote that is
\* returned for this amount carries the deposit's exact sum.
C6_MaxInput ==
    (Ran /\ last.in_amount = U64Max) =>
        /\ (Run.owner_fee # None /\ BLt(V(Run.owner_fee), InVaultBefore.total_amount)) =>
              /\ Run.quote = None
              /\ Run.in_lp # None => Run.failed_at = "in_vault"
        /\ Run.quote # None =>
              /\ V(Run.in_vault).total_amount =
                    BAdd(InVaultBefore.total_amount, BSub(U64Max, V(Run.owner_fee)))
              /\ BLe(V(Run.in_vault).total_amount, U64Max)
              /\ V(Run.quote).in_amount = U64Max

\* the deposit of the largest amount overflows
C6_Witness ==
    /\ Ran
    /\ last.in_amount = U64Max
    /\ Run.in_lp # None
    /\ Run.failed_at = "in_vault"

\* C6 as stated: with amount_in = 2^64 - 1 the call always returns None.
C6_AsStated == (Ran /\ last.in_amount = U64Max) => Run.quote = None

\* C7: every quote returned has out_amount > 0.
C7_PositiveOutput == Succeeded => V(Run.quote).out_amount # Zero

\* C9: whenever an amount swapped is found, it is at most the destination
\* reserve, and (source + credited input) * (destination - swapped) is at
\* least source * destination.
C9_ProductNonDecrease ==
    (Ran /\ Run.destination_amount_swapped # None) =>
        LET src == V(Run.in_token_total_amount)
            dst == V(Run.out_token_total_amount)
            swapped == V(Run.destination_amount_swapped)
        IN  /\ BLe(swapped, dst)
            /\ BLe(BMul(src, dst),
                   BMul(BAdd(src, V(Run.actual_in_amount_after_fee)), BSub(dst, swapped)))

\* a quote after which the product is strictly larger
C9_Witness ==
    /\ Succeeded
    /\ BLt(BMul(V(Run.in_token_total_amount), V(Run.out_token_total_amount)),
           BMul(V(Run.new_swap_source_amount),
                BSub(V(Run.out_token_total_amount), V(Run.destination_amount_swapped))))

\* C10: the shares minted for a deposit, valued right after it against the
\* vault with the deposit added and the supply with the shares added, are
\* worth at most the deposit; and the input the quote credits to the pool is
\* at most the amount deposited (amount_in less the owner fee).
C10_RoundTripNoGain ==
    (Ran /\ Run.after_in_token_total_amount # None) =>
        /\ LET back == get_amount_by_share(V(Run.in_vault), Run.current_time, V(Run.in_lp),
                                           BAdd(InSupplyBefore, V(Run.in_lp)))
           IN  back # None => BLe(V(back), V(Run.in_amount_after_owner_fee))
        /\ Run.actual_in_amount # None =>
              BLe(V(Run.actual_in_amount), V(Run.in_amount_after_owner_fee))

\* a deposit that mints shares and loses to rounding
C10_Witness ==
    /\ Ran
    /\ Run.actual_in_amount # None
    /\ V(Run.in_lp) # Zero
    /\ BLt(V(Run.actual_in_amount), V(Run.in_amount_after_owner_fee))

C11_NeverPanics ==
    Ran =>
        /\ ~Run.panicked
        /\ last.out.result.tag = "Ok"
        /\ Run.destination_amount_swapped # None =>
              BLe(V(Run.destination_amount_swapped), U64Max)
        /\ Run.quote # None => BLe(V(Run.trade_fee), U64Max)
        /\ Run.quote = None => Run.failed_at \in Locals \cup {"reserves"}

\* a trade fee that does not fit 64 bits: the call ends at the narrowing
\* of actual_in_amount_after_fee
C11_Witness ==
    /\ Ran
    /\ Run.trade_fee # None
    /\ BLt(U64Max, V(Run.trade_fee))
    /\ Run.actual_in_amount # None
    /\ Run.failed_at = "actual_in_amount_after_fee"
=============================================================================
